---- MODULE Spec2Model ----
(***************************************************************************)
(* Model of translation_server.py: a Flask service that proxies word       *)
(* translation between English and Mizo to a translation provider and      *)
(* memoises the results in the process-wide dictionary CACHE.              *)
(*                                                                         *)
(* The server runs with threaded=True: every request is served by its own  *)
(* thread.  A thread's handler is cut into steps at each access to the     *)
(* shared CACHE and at the outbound provider call; code that touches only  *)
(* the thread's locals is folded into the step that precedes it.           *)
(***************************************************************************)
EXTENDS Integers, Sequences, FiniteSets, TLC

(***************************************************************************)
(* Bounds of the model.                                                    *)
(***************************************************************************)
MaxRequests == 3     \* requests accepted in one process lifetime
ExtraItems == 5      \* items a long batch request holds beyond the limit
MaxClearRequests == 4   \* requests accepted under ClearSpec

(***************************************************************************)
(* Program constants.                                                      *)
(***************************************************************************)
BatchLimit == 20     \* words[:20]
HTTP_OK == 200       \* response.status_code == 200

\* the request threads: both serve requests under Spec, one under SeqSpec
Threads == {"t1", "t2"}
SeqThreads == {"t1"}

(***************************************************************************)
(* Texts are sequences of characters, so that str.lower() and str.strip()  *)
(* are computed and not assumed.                                           *)
(***************************************************************************)
Whitespace == {" "}

LowerChar(c) == CASE c = "A" -> "a"
                  [] c = "B" -> "b"
                  [] OTHER -> c

RECURSIVE lower(_)
lower(text) == IF text = <<>> THEN <<>>
               ELSE <<LowerChar(Head(text))>> \o lower(Tail(text))

RECURSIVE lstrip(_)
lstrip(text) == IF text = <<>> THEN <<>>
                ELSE IF Head(text) \in Whitespace THEN lstrip(Tail(text))
                ELSE text

RECURSIVE rstrip(_)
rstrip(text) == IF text = <<>> THEN <<>>
                ELSE IF text[Len(text)] \in Whitespace
                     THEN rstrip(SubSeq(text, 1, Len(text) - 1))
                ELSE text

\* mutant of strip: the word is taken as it comes
strip_nothing(text) == text

\* str.strip()
strip(text) == rstrip(lstrip(text))

(***************************************************************************)
(* JSON values of a request body.  kind is the JSON type; a field that   *)
(* the body does not carry has kind "missing".                              *)
(***************************************************************************)
JStr(s) == [kind |-> "str", val |-> s]
JNum == [kind |-> "num", val |-> <<>>]
JMissing == [kind |-> "missing", val |-> <<>>]
JList(items) == [kind |-> "list", val |-> items]

\* data.get(key, default)
Get(field, default) == IF field.kind = "missing" THEN default ELSE field

\* Python truthiness of a JSON value: not x
Falsy(x) == \/ x.kind = "missing"
            \/ x.kind \in {"str", "list"} /\ x.val = <<>>

(***************************************************************************)
(* Python's None and a str, as the result of translate_with_google and     *)
(* translate.                                                              *)
(***************************************************************************)
None == [some |-> FALSE, v |-> ""]
Some(v) == [some |-> TRUE, v |-> v]
\* if result:
Truthy(r) == r.some /\ r.v # ""


(***************************************************************************)
(* CACHE as a Python dict of dicts.                                        *)
(***************************************************************************)
EmptyDict == [k \in {} |-> ""]
Directions == {"en-to-mizo", "mizo-to-en"}
InitialCache == [d \in Directions |-> EmptyDict]

\* d[key] = value
DictSet(d, key, value) ==
    [k \in (DOMAIN d) \cup {key} |-> IF k = key THEN value ELSE d[k]]

\* LANGUAGE_CODES
LANGUAGE_CODES == [english |-> "en", mizo |-> "lus"]

\* mutant of SourceOf: the source is English in both directions
SourceOfEnglish(direction) == LANGUAGE_CODES.english

\* the branch of translate that picks the source and target codes
SourceOf(direction) == IF direction = "en-to-mizo" THEN LANGUAGE_CODES.english
                       ELSE LANGUAGE_CODES.mizo
TargetOf(direction) == IF direction = "en-to-mizo" THEN LANGUAGE_CODES.mizo
                       ELSE LANGUAGE_CODES.english

(***************************************************************************)
(* What requests.post can come back with: an exception, or a response with *)
(* a status code and a body.  The body either is no JSON, or is a JSON     *)
(* object that may hold data, data.translations and a list of items, each  *)
(* of which may hold translatedText.                                       *)
(***************************************************************************)
Reply(exc, status, json, data, translations, items) ==
    [exc |-> exc, status |-> status, json |-> json, data |-> data,
     translations |-> translations, items |-> items]
Item(text) == [hasText |-> TRUE, translatedText |-> text]
NoTextItem == [hasText |-> FALSE, translatedText |-> ""]

Translated == {"chibai", "dam"}
ProviderResponses ==
    {Reply(TRUE, 0, FALSE, FALSE, FALSE, <<>>),            \* transport exception
     Reply(FALSE, 403, TRUE, FALSE, FALSE, <<>>),          \* API error
     Reply(FALSE, HTTP_OK, FALSE, FALSE, FALSE, <<>>),     \* body is no JSON
     Reply(FALSE, HTTP_OK, TRUE, FALSE, FALSE, <<>>),      \* no data
     Reply(FALSE, HTTP_OK, TRUE, TRUE, FALSE, <<>>),       \* no translations
     Reply(FALSE, HTTP_OK, TRUE, TRUE, TRUE, <<>>),        \* empty list
     Reply(FALSE, HTTP_OK, TRUE, TRUE, TRUE, <<NoTextItem>>),
     Reply(FALSE, HTTP_OK, TRUE, TRUE, TRUE, <<Item("")>>),
     Reply(FALSE, HTTP_OK, TRUE, TRUE, TRUE, <<Item("dam"), Item("chibai")>>)}
    \cup {Reply(FALSE, HTTP_OK, TRUE, TRUE, TRUE, <<Item(v)>>) : v \in Translated}

\* The provider call failed: the cases the client logs and maps to None.
Failed(response) ==
    \/ response.exc
    \/ response.status # HTTP_OK
    \/ ~response.json
    \/ ~(response.data /\ response.translations)
    \/ response.items = <<>>
    \/ ~response.items[1].hasText

\* mutant of translate_with_google: an item without translatedText yields ''
translate_with_google_default(text, source_lang, target_lang, response) ==
    IF response.exc THEN None
    ELSE IF response.status = HTTP_OK
    THEN IF ~response.json THEN None
         ELSE IF response.data /\ response.translations
         THEN IF response.items = <<>> THEN None
              ELSE Some(response.items[1].translatedText)
         ELSE None
    ELSE None

\* translate_with_google, given what requests.post came back with
translate_with_google(text, source_lang, target_lang, response) ==
    IF response.exc THEN None                       \* except Exception
    ELSE IF response.status = HTTP_OK
    THEN IF ~response.json THEN None                \* response.json() raises
         ELSE IF response.data /\ response.translations
         THEN IF response.items = <<>> THEN None    \* IndexError
              ELSE IF ~response.items[1].hasText THEN None   \* KeyError
              ELSE Some(response.items[1].translatedText)
         ELSE None
    ELSE None


(***************************************************************************)
(* The request bodies the model sends.                                     *)
(***************************************************************************)
Request(ep, word, words, direction) ==
    [ep |-> ep, word |-> word, words |-> words, direction |-> direction]

SingleWords == {JMissing, JNum, JStr(<<" ">>), JStr(<<"a">>), JStr(<<"A">>),
                JStr(<<"b", " ">>)}
DirectionInputs == {JMissing, JStr("en-to-mizo"), JStr("mizo")}

ShortWords == {JMissing, JList(<<>>), JStr(<<"a">>),
               JList(<<JStr(<<"a">>)>>),
               JList(<<JStr(<<"A">>), JStr(<<"a">>)>>),
               JList(<<JStr(<<"b">>), JStr(<<" ">>)>>),
               JList(<<JStr(<<"a">>), JNum>>)}

\* a list of n items: "a" and "A" in turn up to the limit, "b" beyond it
LongList(n) == [j \in 1..n |-> IF j > BatchLimit THEN JStr(<<"b">>)
                                ELSE IF j % 2 = 1 THEN JStr(<<"a">>)
                                ELSE JStr(<<"A">>)]
LongWords == {JList(LongList(n)) : n \in {BatchLimit, BatchLimit + ExtraItems}}

\* the requests of Spec
ConcWords == {JStr(<<" ">>), JStr(<<"a">>), JStr(<<"A">>)}
ConcRequests ==
    {Request(ep, w, JMissing, JMissing) :
        ep \in {"translate-mizo", "translate-english"}, w \in ConcWords}
    \cup {Request(ep, JMissing, JMissing, JMissing) : ep \in {"status", "clear-cache"}}
    \cup {Request("batch-translate", JMissing,
                  JList(<<JStr(<<"A">>), JStr(<<"a">>)>>), JMissing)}

SingleRequests ==
    {Request(ep, w, JMissing, JMissing) :
        ep \in {"translate-mizo", "translate-english"}, w \in SingleWords}
OtherRequests ==
    {Request(ep, JMissing, JMissing, JMissing) : ep \in {"status", "clear-cache"}}
BatchRequests(W) ==
    {Request("batch-translate", JMissing, w, d) : w \in W, d \in DirectionInputs}

\* the requests of SeqSpec
SeqRequests == SingleRequests \cup OtherRequests \cup BatchRequests(ShortWords)

\* the requests of ClearSpec
ClearRequests ==
    {Request(ep, JStr(<<"a">>), JMissing, JMissing) :
        ep \in {"translate-mizo", "translate-english"}}
    \cup OtherRequests

\* the requests of BatchSpec
LongRequests ==
    {Request("batch-translate", JMissing, w, JStr("en-to-mizo")) : w \in LongWords}
    \cup {Request("batch-translate", JMissing, JList(<<JStr(<<"b">>)>>), JMissing)}

(***************************************************************************)
(* HTTP responses.                                                         *)
(***************************************************************************)
NoResponse ==
    [status |-> 0, body |-> "none", success |-> FALSE, cached |-> FALSE,
     input |-> <<>>, output |-> "", direction |-> "", translations |-> <<>>,
     count |-> 0, mizo_to_english |-> 0, english_to_mizo |-> 0]
\* jsonify({'error': ..., 'success': False}), code
ErrorResponse(code) == [NoResponse EXCEPT !.status = code, !.body = "json"]
\* an exception that leaves the handler: Flask answers 500 with its own page
UnhandledException == [NoResponse EXCEPT !.status = 500, !.body = "html"]

\* no translate call has returned since the cache was last cleared
NoCall == [made |-> FALSE, direction |-> "", key |-> <<>>, text |-> <<>>,
           res |-> None, calls |-> 0]

(***************************************************************************)
(* State.  CACHE is the program's only shared state; the other variables   *)
(* of the first group are the locals of the thread serving a request.  The *)
(* second group records what happened, for the properties below.           *)
(***************************************************************************)
VARIABLES CACHE, pc, req, word, direction, cache_key, result, i, results,
          size, resp,
          nreq, reqCalls, sent, tcalls, failed, called, calledSince, last,
          preClear

locals == <<pc, req, word, direction, cache_key, result, i, results, size, resp>>
history == <<nreq, reqCalls, sent, tcalls, failed, called, calledSince, last,
             preClear>>
vars == <<CACHE, locals, history>>

Init ==
    /\ CACHE = InitialCache
    /\ pc = [t \in Threads |-> "idle"]
    /\ req = [t \in Threads |-> Request("none", JMissing, JMissing, JMissing)]
    /\ word = [t \in Threads |-> JMissing]
    /\ direction = [t \in Threads |-> ""]
    /\ cache_key = [t \in Threads |-> <<>>]
    /\ result = [t \in Threads |-> None]
    /\ i = [t \in Threads |-> 0]
    /\ results = [t \in Threads |-> <<>>]
    /\ size = [t \in Threads |-> 0]
    /\ resp = [t \in Threads |-> NoResponse]
    /\ nreq = 0
    /\ reqCalls = [t \in Threads |-> 0]
    /\ sent = [t \in Threads |-> {}]
    /\ tcalls = [t \in Threads |-> 0]
    /\ failed = [t \in Threads |-> FALSE]
    /\ called = [d \in Directions |-> {}]
    /\ calledSince = [d \in Directions |-> {}]
    /\ last = NoCall
    /\ preClear = [d \in Directions |-> {}]


(***************************************************************************)
(* Steps of a request thread.                                              *)
(***************************************************************************)
Goto(t, label) == pc' = [pc EXCEPT ![t] = label]

\* the handler returns the response r
Respond(t, r) == /\ Goto(t, "done")
                 /\ resp' = [resp EXCEPT ![t] = r]

\* an exception leaves the handler
Raise(t) == Respond(t, UnhandledException)

\* A thread takes the next request of R, the n-th at most.
ReceiveUpTo(t, R, n) ==
    /\ pc[t] \in {"idle", "done"}
    /\ nreq < n
    /\ \E r \in R : req' = [req EXCEPT ![t] = r]
    /\ Goto(t, "handler")
    /\ word' = [word EXCEPT ![t] = JMissing]
    /\ direction' = [direction EXCEPT ![t] = ""]
    /\ cache_key' = [cache_key EXCEPT ![t] = <<>>]
    /\ result' = [result EXCEPT ![t] = None]
    /\ i' = [i EXCEPT ![t] = 0]
    /\ results' = [results EXCEPT ![t] = <<>>]
    /\ size' = [size EXCEPT ![t] = 0]
    /\ resp' = [resp EXCEPT ![t] = NoResponse]
    /\ nreq' = nreq + 1
    /\ reqCalls' = [reqCalls EXCEPT ![t] = 0]
    /\ sent' = [sent EXCEPT ![t] = {}]
    /\ tcalls' = [tcalls EXCEPT ![t] = 0]
    /\ failed' = [failed EXCEPT ![t] = FALSE]
    /\ UNCHANGED <<CACHE, called, calledSince, last, preClear>>

\* A thread takes the next request of R.
Receive(t, R) == ReceiveUpTo(t, R, MaxRequests)

\* api_translate_mizo and api_translate_english up to the call of translate
SingleEntry(t, ep, dir) ==
    /\ pc[t] = "handler"
    /\ req[t].ep = ep
    /\ LET w == Get(req[t].word, JStr(<<>>)) IN
         IF w.kind # "str"
         THEN /\ Raise(t)                          \* no .strip() on a number
              /\ UNCHANGED <<word, direction>>
         ELSE IF strip(w.val) = <<>>                 \* if not word
         THEN /\ Respond(t, ErrorResponse(400))
              /\ UNCHANGED <<word, direction>>
         ELSE /\ word' = [word EXCEPT ![t] = JStr(strip(w.val))]
              /\ direction' = [direction EXCEPT ![t] = dir]
              /\ Goto(t, "translate")
              /\ UNCHANGED resp
    /\ UNCHANGED <<CACHE, req, cache_key, result, i, results, size, history>>

api_translate_mizo(t) == SingleEntry(t, "translate-mizo", "mizo-to-en")
api_translate_english(t) == SingleEntry(t, "translate-english", "en-to-mizo")

\* mutant of CacheKey: the text itself is the key
CacheKeyRaw(text) == text

\* translate: cache_key = text.lower()
CacheKey(text) == lower(text)

\* translate: cache_key = text.lower(); if cache_key in CACHE[direction]
translate_lookup(t) ==
    /\ pc[t] = "translate"
    /\ IF word[t].kind # "str"
       THEN /\ Raise(t)                            \* no .lower() on a number
            /\ UNCHANGED cache_key
       ELSE /\ cache_key' = [cache_key EXCEPT ![t] = CacheKey(word[t].val)]
            /\ IF direction[t] \notin DOMAIN CACHE
               THEN Raise(t)                       \* KeyError
               ELSE /\ Goto(t, IF CacheKey(word[t].val) \in DOMAIN CACHE[direction[t]]
                               THEN "hit" ELSE "call")
                    /\ UNCHANGED resp
    /\ tcalls' = [tcalls EXCEPT ![t] = 0]
    /\ failed' = [failed EXCEPT ![t] = FALSE]
    /\ UNCHANGED <<CACHE, req, word, direction, result, i, results, size,
                   nreq, reqCalls, sent, called, calledSince, last, preClear>>

\* the history keeps the translate call that returned to thread t
Returned(t) ==
    last' = [made |-> TRUE, direction |-> direction[t], key |-> cache_key[t],
             text |-> word[t].val, res |-> result[t], calls |-> tcalls[t]]

\* translate: return CACHE[direction][cache_key]
translate_hit(t) ==
    /\ pc[t] = "hit"
    /\ LET d == direction[t]
           k == cache_key[t]
       IN IF k \notin DOMAIN CACHE[d]
          THEN /\ Raise(t)                         \* KeyError: cleared meanwhile
               /\ UNCHANGED result
          ELSE /\ result' = [result EXCEPT ![t] = Some(CACHE[d][k])]
               /\ Goto(t, "return")
               /\ UNCHANGED resp
    /\ preClear' = [preClear EXCEPT ![direction[t]] = @ \ {cache_key[t]}]
    /\ UNCHANGED <<CACHE, req, word, direction, cache_key, i, results, size,
                   nreq, reqCalls, sent, tcalls, failed, called, calledSince, last>>

\* translate: result = translate_with_google(text, source, target)
translate_call(t) ==
    /\ pc[t] = "call"
    /\ LET d == direction[t]
           k == cache_key[t]
           text == word[t].val
       IN /\ \E response \in ProviderResponses :
               LET r == translate_with_google(text, SourceOf(d), TargetOf(d), response)
               IN /\ result' = [result EXCEPT ![t] = r]
                  /\ failed' = [failed EXCEPT ![t] = Failed(response)]
                  /\ called' = IF Truthy(r) THEN [called EXCEPT ![d] = @ \cup {k}]
                               ELSE called
                  /\ calledSince' = IF Truthy(r)
                                    THEN [calledSince EXCEPT ![d] = @ \cup {k}]
                                    ELSE calledSince
          /\ sent' = [sent EXCEPT ![t] = @ \cup {<<text, SourceOf(d), TargetOf(d)>>}]
    /\ reqCalls' = [reqCalls EXCEPT ![t] = @ + 1]
    /\ tcalls' = [tcalls EXCEPT ![t] = @ + 1]
    /\ Goto(t, "store")
    /\ UNCHANGED <<CACHE, req, word, direction, cache_key, i, results, size, resp,
                   nreq, last, preClear>>

\* translate_with_google: requests.post is called without a timeout, so a
\* provider that accepts the request and never answers keeps the thread in the
\* call for ever
provider_hangs(t) ==
    /\ pc[t] = "call"
    /\ sent' = [sent EXCEPT ![t] = @ \cup {<<word[t].val, SourceOf(direction[t]),
                                              TargetOf(direction[t])>>}]
    /\ reqCalls' = [reqCalls EXCEPT ![t] = @ + 1]
    /\ tcalls' = [tcalls EXCEPT ![t] = @ + 1]
    /\ Goto(t, "blocked")
    /\ UNCHANGED <<CACHE, req, word, direction, cache_key, result, i, results, size,
                   resp, nreq, failed, called, calledSince, last, preClear>>

\* mutant of Stored: the result is not stored
StoredNowhere(cache, d, k, r) == cache

\* mutant of Stored: the result is stored in the same dict for both directions
StoredInOneDict(cache, d, k, r) ==
    IF Truthy(r) THEN [cache EXCEPT !["mizo-to-en"] = DictSet(@, k, r.v)]
    ELSE cache

\* mutant of Stored: a failed call's result is stored too
StoredAlways(cache, d, k, r) == [cache EXCEPT ![d] = DictSet(@, k, r.v)]

\* mutant of Stored: an entry that is there is kept (dict.setdefault)
StoredFirst(cache, d, k, r) ==
    IF Truthy(r) /\ k \notin DOMAIN cache[d]
    THEN [cache EXCEPT ![d] = DictSet(@, k, r.v)]
    ELSE cache

\* translate: if result: CACHE[direction][cache_key] = result
Stored(cache, d, k, r) == IF Truthy(r) THEN [cache EXCEPT ![d] = DictSet(@, k, r.v)]
                          ELSE cache

\* mutant of translate_store: a failed call is tried once more
translate_store_retry(t) ==
    /\ pc[t] = "store"
    /\ CACHE' = Stored(CACHE, direction[t], cache_key[t], result[t])
    /\ preClear' = [preClear EXCEPT ![direction[t]] = @ \ {cache_key[t]}]
    /\ Goto(t, IF ~Truthy(result[t]) /\ tcalls[t] < 2 THEN "call" ELSE "return")
    /\ UNCHANGED <<req, word, direction, cache_key, result, i, results, size, resp,
                   nreq, reqCalls, sent, tcalls, failed, called, calledSince, last>>

\* translate: if result: CACHE[direction][cache_key] = result; return result
translate_store(t) ==
    /\ pc[t] = "store"
    /\ CACHE' = Stored(CACHE, direction[t], cache_key[t], result[t])
    /\ preClear' = [preClear EXCEPT ![direction[t]] = @ \ {cache_key[t]}]
    /\ Goto(t, "return")
    /\ UNCHANGED <<req, word, direction, cache_key, result, i, results, size, resp,
                   nreq, reqCalls, sent, tcalls, failed, called, calledSince, last>>

\* api_translate_mizo and api_translate_english once translate has returned
SingleResult(t, ep, dir) ==
    /\ pc[t] = "return"
    /\ req[t].ep = ep
    /\ IF Truthy(result[t])
       THEN Respond(t, [NoResponse EXCEPT
                !.status = HTTP_OK, !.body = "json", !.success = TRUE,
                !.input = word[t].val, !.output = result[t].v,
                !.direction = IF dir = "mizo-to-en" THEN "mizo-to-english"
                              ELSE "english-to-mizo",
                !.cached = lower(word[t].val) \in DOMAIN CACHE[dir]])
       ELSE Respond(t, ErrorResponse(500))
    /\ Returned(t)
    /\ UNCHANGED <<CACHE, req, word, direction, cache_key, result, i, results, size,
                   nreq, reqCalls, sent, tcalls, failed, called, calledSince,
                   preClear>>

api_translate_mizo_result(t) == SingleResult(t, "translate-mizo", "mizo-to-en")
api_translate_english_result(t) == SingleResult(t, "translate-english", "en-to-mizo")


Min(a, b) == IF a < b THEN a ELSE b

\* mutant of FirstItems: one item more
FirstItemsOneMore(words) == SubSeq(words, 1, Min(Len(words), BatchLimit + 1))

\* words[:20]
FirstItems(words) == SubSeq(words, 1, Min(Len(words), BatchLimit))

\* api_batch_translate up to the first call of translate
api_batch_translate(t) ==
    /\ pc[t] = "handler"
    /\ req[t].ep = "batch-translate"
    /\ LET words == Get(req[t].words, JList(<<>>))
           dir == Get(req[t].direction, JStr("mizo-to-en"))
       IN IF Falsy(words) \/ words.kind # "list"
          THEN /\ Respond(t, ErrorResponse(400))
               /\ UNCHANGED <<word, direction, i>>
          ELSE /\ i' = [i EXCEPT ![t] = 1]
               /\ word' = [word EXCEPT ![t] = FirstItems(words.val)[1]]
               /\ direction' = [direction EXCEPT ![t] = dir.val]
               /\ Goto(t, "translate")
               /\ UNCHANGED resp
    /\ UNCHANGED <<CACHE, req, cache_key, result, results, size, history>>

\* api_batch_translate once translate has returned for words[i]: the rest of
\* the loop body, then the next item or the response
api_batch_translate_next(t) ==
    /\ pc[t] = "return"
    /\ req[t].ep = "batch-translate"
    /\ LET items == FirstItems(req[t].words.val)
           out == IF Truthy(result[t])
                  THEN Append(results[t], [input |-> word[t].val,
                                           output |-> result[t].v,
                                           direction |-> direction[t]])
                  ELSE results[t]
       IN /\ results' = [results EXCEPT ![t] = out]
          /\ IF i[t] < Len(items)
             THEN /\ i' = [i EXCEPT ![t] = @ + 1]
                  /\ word' = [word EXCEPT ![t] = items[i[t] + 1]]
                  /\ Goto(t, "translate")
                  /\ UNCHANGED resp
             ELSE /\ Respond(t, [NoResponse EXCEPT
                        !.status = HTTP_OK, !.body = "json", !.success = TRUE,
                        !.translations = out, !.count = Len(out)])
                  /\ UNCHANGED <<i, word>>
    /\ Returned(t)
    /\ UNCHANGED <<CACHE, req, direction, cache_key, result, size,
                   nreq, reqCalls, sent, tcalls, failed, called, calledSince,
                   preClear>>

\* api_status: len(CACHE['mizo-to-en'])
api_status(t) ==
    /\ pc[t] = "handler"
    /\ req[t].ep = "status"
    /\ size' = [size EXCEPT ![t] = Cardinality(DOMAIN CACHE["mizo-to-en"])]
    /\ Goto(t, "status")
    /\ UNCHANGED <<CACHE, req, word, direction, cache_key, result, i, results, resp,
                   history>>

\* api_status: len(CACHE['en-to-mizo']) and the response
api_status_respond(t) ==
    /\ pc[t] = "status"
    /\ Respond(t, [NoResponse EXCEPT
            !.status = HTTP_OK, !.body = "json",
            !.mizo_to_english = size[t],
            !.english_to_mizo = Cardinality(DOMAIN CACHE["en-to-mizo"])])
    /\ UNCHANGED <<CACHE, req, word, direction, cache_key, result, i, results, size,
                   history>>

\* CACHE[d].clear()
Clear(d) ==
    /\ CACHE' = [CACHE EXCEPT ![d] = EmptyDict]
    /\ preClear' = [preClear EXCEPT ![d] = DOMAIN CACHE[d]]
    /\ calledSince' = [calledSince EXCEPT ![d] = {}]
    /\ last' = NoCall

\* api_clear_cache: CACHE['mizo-to-en'].clear()
api_clear_cache(t) ==
    /\ pc[t] = "handler"
    /\ req[t].ep = "clear-cache"
    /\ Clear("mizo-to-en")
    /\ Goto(t, "clear")
    /\ UNCHANGED <<req, word, direction, cache_key, result, i, results, size, resp,
                   nreq, reqCalls, sent, tcalls, failed, called>>

\* mutant of api_clear_cache_respond: the same dict is cleared twice
api_clear_cache_same_dict(t) ==
    /\ pc[t] = "clear"
    /\ Clear("mizo-to-en")
    /\ Respond(t, [NoResponse EXCEPT
            !.status = HTTP_OK, !.body = "json", !.success = TRUE])
    /\ UNCHANGED <<req, word, direction, cache_key, result, i, results, size,
                   nreq, reqCalls, sent, tcalls, failed, called>>

\* api_clear_cache: CACHE['en-to-mizo'].clear() and the response
api_clear_cache_respond(t) ==
    /\ pc[t] = "clear"
    /\ Clear("en-to-mizo")
    /\ Respond(t, [NoResponse EXCEPT
            !.status = HTTP_OK, !.body = "json", !.success = TRUE])
    /\ UNCHANGED <<req, word, direction, cache_key, result, i, results, size,
                   nreq, reqCalls, sent, tcalls, failed, called>>

(***************************************************************************)
(* Specifications.  Spec serves requests on NumThreads threads, whose      *)
(* steps interleave.  SeqSpec serves the requests one at a time, and also  *)
(* sends the batch requests that are longer than the limit.                *)
(***************************************************************************)
Step(t) ==
    \/ api_translate_mizo(t)
    \/ api_translate_english(t)
    \/ translate_lookup(t)
    \/ translate_hit(t)
    \/ translate_call(t)
    \/ translate_store(t)
    \/ api_translate_mizo_result(t)
    \/ api_translate_english_result(t)
    \/ api_batch_translate(t)
    \/ api_batch_translate_next(t)
    \/ api_status(t)
    \/ api_status_respond(t)
    \/ api_clear_cache(t)
    \/ api_clear_cache_respond(t)

Next == \E t \in Threads : Receive(t, ConcRequests) \/ Step(t)
Spec == Init /\ [][Next]_vars

SeqNext == \E t \in SeqThreads : Receive(t, SeqRequests) \/ Step(t)
SeqSpec == Init /\ [][SeqNext]_vars

\* BatchSpec serves batch requests only, one at a time, among them the
\* requests whose list is longer than the limit.
BatchNext ==
    \E t \in SeqThreads :
        \/ Receive(t, LongRequests)
        \/ api_batch_translate(t)
        \/ translate_lookup(t)
        \/ translate_hit(t)
        \/ translate_call(t)
        \/ translate_store(t)
        \/ api_batch_translate_next(t)
BatchSpec == Init /\ [][BatchNext]_vars

\* LiveSpec serves the requests of Spec one at a time, with a provider that
\* may never answer, and a request thread that takes its next step whenever
\* it has one.
Serve(t) == Step(t) \/ provider_hangs(t)
LiveNext == \E t \in SeqThreads : Receive(t, ConcRequests) \/ Serve(t)
LiveSpec == Init /\ [][LiveNext]_vars /\ \A t \in SeqThreads : WF_vars(Serve(t))

\* ClearSpec serves translations of one word in both directions, status and
\* clear-cache requests on both threads: enough requests to fill both caches,
\* clear them and read them meanwhile.
ClearNext ==
    \E t \in Threads :
        \/ ReceiveUpTo(t, ClearRequests, MaxClearRequests)
        \/ api_translate_mizo(t)
        \/ api_translate_english(t)
        \/ translate_lookup(t)
        \/ translate_hit(t)
        \/ translate_call(t)
        \/ translate_store(t)
        \/ api_translate_mizo_result(t)
        \/ api_translate_english_result(t)
        \/ api_status(t)
        \/ api_status_respond(t)
        \/ api_clear_cache(t)
        \/ api_clear_cache_respond(t)
ClearSpec == Init /\ [][ClearNext]_vars


(***************************************************************************)
(* Properties.                                                             *)
(***************************************************************************)
IsSingle(t) == req[t].ep \in {"translate-mizo", "translate-english"}
IsBatch(t) == req[t].ep = "batch-translate"

\* translate has just returned to thread t, and the translate call that
\* returned before it (with no clear-cache since) had the same direction and
\* the same lower-cased text
SameCallAgain(t) ==
    /\ pc[t] = "return"
    /\ last.made
    /\ last.direction = direction[t]
    /\ lower(last.text) = lower(word[t].val)

\* C1 as stated: two translate calls in sequence with the same lower-cased
\* text and the same direction, no clear-cache in between, issue at most one
\* provider call together, and the second returns what the first returned.
C1_TwoCallsOneProviderCall ==
    \A t \in Threads :
        SameCallAgain(t) =>
            /\ last.calls + tcalls[t] <= 1
            /\ result[t] = last.res

\* C1 as amended: when the first of the two calls returned a non-empty
\* translation, the second issues no provider call and returns the same
\* result, so that the two issue at most one provider call together.
C1_RepeatAfterSuccessIsServedFromCache ==
    \A t \in Threads :
        SameCallAgain(t) /\ Truthy(last.res) =>
            /\ tcalls[t] = 0
            /\ last.calls + tcalls[t] <= 1
            /\ result[t] = last.res

C1_Witness ==
    \E t \in Threads :
        /\ SameCallAgain(t)
        /\ Truthy(last.res)
        /\ last.calls = 1
        /\ tcalls[t] = 0
        /\ result[t] = last.res

\* thread t's provider call comes back with a non-empty translation
SuccessfulCall(t) ==
    /\ pc[t] = "call"
    /\ pc'[t] = "store"
    /\ Truthy(result'[t])

\* C2 as stated: in one process lifetime no (direction, normalized text) pair
\* gets a second successful provider call, under any interleaving of requests.
C2_AtMostOneSuccessfulCall ==
    [][\A t \in Threads :
          SuccessfulCall(t) => cache_key[t] \notin called[direction[t]]]_vars

\* C2 as amended: since the last clear-cache, a pair gets a second successful
\* provider call only from a translate call that overlaps the first one: it
\* looked the key up before the first call stored its result, which is stored
\* by now or is about to be.
C2_SecondCallOnlyByOverlap ==
    [][\A t \in Threads :
          SuccessfulCall(t) /\ cache_key[t] \in calledSince[direction[t]] =>
              \/ cache_key[t] \in DOMAIN CACHE[direction[t]]
              \/ \E u \in Threads \ {t} :
                    /\ pc[u] = "store"
                    /\ direction[u] = direction[t]
                    /\ cache_key[u] = cache_key[t]
                    /\ Truthy(result[u])]_vars

C2_Witness ==
    \E t \in Threads : \E u \in Threads \ {t} :
        /\ pc[t] = "store" /\ pc[u] = "store"
        /\ direction[u] = direction[t]
        /\ cache_key[u] = cache_key[t]
        /\ Truthy(result[t]) /\ Truthy(result[u])

\* C3: a success response of a single-translate endpoint carries cached=true
\* exactly when the request issued no provider call.
C3_CachedFlagTellsCacheHit ==
    \A t \in Threads :
        pc[t] = "done" /\ IsSingle(t) /\ resp[t].success =>
            (resp[t].cached <=> tcalls[t] = 0)

\* C4: with requests served one at a time, when clear-cache has completed both
\* caches are empty; status reports the sizes zero as long as no provider call
\* has succeeded since; and no key that was cached before the clear is served
\* from the cache by the next translate of it.
C4_ClearCacheEmptiesBothCaches ==
    \A t \in Threads :
        /\ pc[t] = "done" /\ req[t].ep = "clear-cache" =>
              \A d \in Directions : DOMAIN CACHE[d] = {}
        /\ pc[t] = "done" /\ req[t].ep = "status"
             /\ (\A d \in Directions : calledSince[d] = {}) =>
              resp[t].mizo_to_english = 0 /\ resp[t].english_to_mizo = 0
        /\ pc[t] = "hit" => cache_key[t] \notin preClear[direction[t]]

C4_Witness ==
    \E t \in Threads :
        /\ pc[t] = "store"
        /\ tcalls[t] = 1
        /\ cache_key[t] \in preClear[direction[t]]
        /\ \A d \in Directions : DOMAIN CACHE[d] = {}

\* C5: when the provider call of a single-translate request fails, translate
\* returns None without raising, the endpoint answers 500 with success=false,
\* and no step of the request changes the caches.
C5_FailedCallAnswers500AndCachesNothing ==
    /\ [](\A t \in Threads :
            IsSingle(t) /\ failed[t] =>
                /\ pc[t] \in {"store", "return", "done"}
                /\ result[t] = None
                /\ pc[t] = "done" => resp[t] = ErrorResponse(500))
    /\ [][\A t \in Threads :
            /\ IsSingle(t)
            /\ pc'[t] # pc[t]
            /\ (pc[t] \in {"handler", "translate"} \/ failed'[t])
            => CACHE' = CACHE]_vars

C5_Witness ==
    \E t \in Threads :
        /\ IsSingle(t) /\ failed[t] /\ pc[t] = "done"
        /\ resp[t].status = 500
        /\ \E d \in Directions : DOMAIN CACHE[d] # {}

\* the word of the request body is missing, empty or whitespace only
Blank(w) == \/ w.kind = "missing"
            \/ /\ w.kind = "str"
               /\ \A j \in 1..Len(w.val) : w.val[j] \in Whitespace

\* C6: a single-translate request whose word is missing, empty or whitespace
\* only is answered 400 with success=false, issues no provider call and leaves
\* the caches as they are.
C6_BlankWordAnswers400 ==
    /\ [](\A t \in Threads :
            IsSingle(t) /\ Blank(req[t].word) /\ pc[t] # "handler" =>
                /\ pc[t] = "done"
                /\ resp[t] = ErrorResponse(400)
                /\ ~resp[t].success
                /\ reqCalls[t] = 0 /\ sent[t] = {})
    /\ [][\A t \in Threads :
            IsSingle(t) /\ Blank(req[t].word) /\ pc[t] = "handler"
                /\ pc'[t] # "handler"
            => CACHE' = CACHE]_vars

C6_Witness ==
    \E t \in Threads :
        /\ IsSingle(t) /\ req[t].word = JStr(<<" ">>)
        /\ pc[t] = "done" /\ resp[t].status = 400
        /\ \E d \in Directions : DOMAIN CACHE[d] # {}

\* C7: a batch request passes only the first min(n, 20) items of its list to
\* translate: it issues at most that many provider calls, every text sent to
\* the provider and every key looked up or stored is one of these items, and
\* the response holds translations of these items only.
C7_BatchProcessesFirstTwenty ==
    \A t \in Threads :
        IsBatch(t) /\ req[t].words.kind = "list" =>
            LET ws == req[t].words.val
                m == IF Len(ws) < BatchLimit THEN Len(ws) ELSE BatchLimit
            IN /\ reqCalls[t] <= m
               /\ i[t] <= m
               /\ \A x \in sent[t] : \E j \in 1..m : ws[j].val = x[1]
               /\ pc[t] \in {"translate", "hit", "call", "store", "return"} =>
                     word[t] = ws[i[t]]
               /\ pc[t] \in {"hit", "call", "store", "return"} =>
                     cache_key[t] = lower(ws[i[t]].val)
               /\ pc[t] = "done" /\ resp[t].success =>
                     /\ i[t] = m
                     /\ resp[t].count <= m
                     /\ \A e \in 1..Len(resp[t].translations) :
                           \E j \in 1..m : ws[j].val = resp[t].translations[e].input

C7_Witness ==
    \E t \in Threads :
        /\ IsBatch(t) /\ pc[t] = "done" /\ resp[t].success
        /\ Len(req[t].words.val) = BatchLimit + ExtraItems
        /\ i[t] = BatchLimit
        /\ resp[t].count > 1
        /\ reqCalls[t] > 1

\* C8: every batch request whose words field is a non-empty list is answered
\* with a success response whose count is the length of translations, whatever
\* the items and the direction are.
C8_BatchNeverFails ==
    \A t \in Threads :
        /\ pc[t] = "done" /\ IsBatch(t)
        /\ req[t].words.kind = "list" /\ req[t].words.val # <<>>
        => /\ resp[t].status = HTTP_OK
           /\ resp[t].success
           /\ resp[t].count = Len(resp[t].translations)

\* the texts x and y differ in letter case only
CasePairs == {{"a", "A"}, {"b", "B"}}
DifferInCaseOnly(x, y) ==
    /\ x # y
    /\ Len(x) = Len(y)
    /\ \A j \in 1..Len(x) : x[j] = y[j] \/ {x[j], y[j]} \in CasePairs

\* C9: once a translate of a text has returned a non-empty translation, the
\* next translate, in the same direction and before any clear-cache, of a text
\* that differs from it in letter case only is a cache hit: it issues no
\* provider call and returns the stored translation.
C9_CacheKeysIgnoreCase ==
    \A t \in Threads :
        /\ pc[t] = "return"
        /\ last.made /\ last.direction = direction[t]
        /\ DifferInCaseOnly(last.text, word[t].val)
        /\ Truthy(last.res)
        => /\ tcalls[t] = 0
           /\ result[t] = last.res
           /\ result[t] = Some(CACHE[direction[t]][cache_key[t]])

C9_Witness ==
    \E t \in Threads :
        /\ pc[t] = "return"
        /\ last.made /\ last.direction = direction[t]
        /\ last.text = <<"A">> /\ word[t].val = <<"a">>
        /\ Truthy(last.res)
        /\ tcalls[t] = 0
        /\ result[t] = last.res

\* C10: a translate call issues at most one provider call, a failed call is
\* returned as None with no second attempt, and a batch request issues at most
\* one provider call for each item it has started.
C10_NoRetries ==
    \A t \in Threads :
        /\ tcalls[t] <= 1
        /\ IsSingle(t) => reqCalls[t] <= 1
        /\ IsBatch(t) => reqCalls[t] <= i[t]
        /\ failed[t] /\ pc[t] = "return" => tcalls[t] = 1 /\ result[t] = None

C10_Witness ==
    \E t \in Threads :
        /\ IsBatch(t) /\ pc[t] = "done"
        /\ failed[t]
        /\ reqCalls[t] = i[t]
        /\ i[t] > 1


\* thread t serves a clear-cache request that has emptied the Mizo-to-English
\* cache, which held entries, and not yet the English-to-Mizo cache, which
\* holds entries
PartlyCleared(t) ==
    /\ pc[t] = "clear"
    /\ preClear["mizo-to-en"] # {}
    /\ DOMAIN CACHE["mizo-to-en"] = {}
    /\ DOMAIN CACHE["en-to-mizo"] # {}

\* thread u reads the cache in this step: one of the two reads of a status
\* request, or the lookup of translate
ReadsCache(u) ==
    /\ \/ pc[u] = "handler" /\ req[u].ep = "status"
       \/ pc[u] = "status"
       \/ pc[u] = "translate"
    /\ pc'[u] # pc[u]

\* C11: clear-cache wipes both caches entirely, never partially: no request
\* served meanwhile (a status read, a translate lookup) reads the cache in a
\* state where clear-cache has emptied one cache and the other still holds its
\* entries.
C11_NoReadOfAPartlyClearedCache ==
    [][\A t \in Threads : \A u \in Threads \ {t} :
          PartlyCleared(t) => ~ReadsCache(u)]_vars

\* C12: whenever the lower-cased text is in the direction's cache when
\* translate looks it up, translate returns exactly the stored value, issues no
\* provider call and leaves both caches unchanged.
C12_CachedKeyIsReturnedFromCache ==
    [][\A t \in Threads :
          (pc[t] = "hit" /\ pc'[t] # pc[t]) =>
              /\ pc'[t] = "return"
              /\ result'[t] = Some(CACHE[direction[t]][cache_key[t]])
              /\ tcalls'[t] = 0
              /\ reqCalls'[t] = reqCalls[t]
              /\ CACHE' = CACHE]_vars

\* C13: whenever the provider answers with the success status and a well-formed
\* body whose first item holds a translated text, translate takes the call as a
\* success for every value of that text: the text is in the cache under the
\* key and is what translate returns, and a single-word endpoint answers
\* success, never 500.
C13_EveryTranslatedTextIsASuccess ==
    \A t \in Threads :
        (tcalls[t] = 1 /\ ~failed[t]) =>
            /\ pc[t] = "return" =>
                  /\ result[t].some
                  /\ cache_key[t] \in DOMAIN CACHE[direction[t]]
                  /\ CACHE[direction[t]][cache_key[t]] = result[t].v
            /\ (pc[t] = "done" /\ IsSingle(t)) =>
                  /\ resp[t].status = HTTP_OK
                  /\ resp[t].success

\* a text as the spec normalizes it: non-empty, no upper-case letter, no
\* whitespace at either end
UpperCase == {"A", "B"}
NormalizedText(k) ==
    /\ k # <<>>
    /\ \A j \in 1..Len(k) : k[j] \notin UpperCase
    /\ k[1] # " "
    /\ k[Len(k)] # " "

\* C14: every key of either cache is a normalized text: lower-cased, with no
\* leading or trailing whitespace, and non-empty, whichever endpoint caused the
\* insertion.
C14_CacheKeysAreNormalized ==
    \A d \in Directions : \A k \in DOMAIN CACHE[d] : NormalizedText(k)

\* threads t and u have both answered a single-word request for the same
\* direction and the same lower-cased text, each after a successful provider
\* call of its own
BothMissedAndSucceeded(t, u) ==
    /\ t # u
    /\ pc[t] = "done" /\ pc[u] = "done"
    /\ IsSingle(t) /\ IsSingle(u)
    /\ direction[t] = direction[u]
    /\ cache_key[t] = cache_key[u]
    /\ tcalls[t] = 1 /\ tcalls[u] = 1
    /\ resp[t].success /\ resp[u].success

\* thread t writes its result into the cache in this step
Writes(t) == pc[t] = "store" /\ pc'[t] = "return" /\ Truthy(result[t])

\* C15: two concurrent requests for the same uncached direction and lower-cased
\* text may both miss and both call the provider.  Once both have completed
\* successfully the cache holds one entry for the key, each write having
\* replaced the value by the writer's own result (the last write wins), and
\* each request has returned the value it obtained itself.
C15_BothMissLastWriteWins ==
    /\ [](\A t \in Threads : \A u \in Threads :
            BothMissedAndSucceeded(t, u) =>
                /\ resp[t].output = result[t].v
                /\ resp[u].output = result[u].v
                /\ cache_key[t] \in DOMAIN CACHE[direction[t]]
                /\ CACHE[direction[t]][cache_key[t]]
                       \in {resp[t].output, resp[u].output})
    /\ [][\A t \in Threads :
             Writes(t) =>
                 /\ cache_key[t] \in DOMAIN CACHE'[direction[t]]
                 /\ CACHE'[direction[t]][cache_key[t]] = result[t].v
                 /\ result'[t] = result[t]]_vars

\* both requests missed, got different values, and the cache holds one of them
C15_Witness ==
    \E t \in Threads : \E u \in Threads :
        /\ BothMissedAndSucceeded(t, u)
        /\ resp[t].output # resp[u].output
        /\ CACHE[direction[t]][cache_key[t]] = resp[u].output

\* thread t empties a dict in this step: one of the two steps of clear-cache
Clears(t) ==
    /\ \/ pc[t] = "handler" /\ req[t].ep = "clear-cache"
       \/ pc[t] = "clear"
    /\ pc'[t] # pc[t]

\* thread t, whose provider call succeeded, writes its result under its key in
\* this step, and nothing else in the cache changes
InsertsAfterSuccess(t) ==
    /\ Writes(t)
    /\ tcalls[t] = 1
    /\ ~failed[t]
    /\ \A d \in Directions : \A k \in DOMAIN CACHE'[d] :
           (d # direction[t] \/ k # cache_key[t]) =>
               (k \in DOMAIN CACHE[d] /\ CACHE'[d][k] = CACHE[d][k])

\* C16: entries are never evicted.  A step that is not a step of clear-cache
\* removes no key from either cache; the cache changes only by a clear-cache
\* step or by the insertion of a translate whose provider call succeeded, so
\* status, a cache hit, a failed translation and a rejected request leave it
\* as it is.
C16_OnlyClearCacheRemovesEntries ==
    [][/\ (\E t \in Threads : Clears(t))
          \/ (\A d \in Directions : DOMAIN CACHE[d] \subseteq DOMAIN CACHE'[d])
       /\ CACHE' # CACHE =>
             \E t \in Threads : Clears(t) \/ InsertsAfterSuccess(t)]_vars

\* a cache that holds an entry, after a request with a failed provider call
\* and a clear-cache request that came before the entry
C16_Witness ==
    /\ \E d \in Directions : DOMAIN CACHE[d] # {}
    /\ \E t \in Threads : pc[t] = "done" /\ tcalls[t] = 1 /\ failed[t]
    /\ \E t \in Threads : pc[t] = "done" /\ req[t].ep = "clear-cache"

\* thread t takes a step of translate
TranslateStep(t) ==
    /\ pc[t] \in {"translate", "hit", "call", "store"}
    /\ pc'[t] # pc[t]
    /\ direction[t] \in Directions

\* C17: the two caches are independent.  A step of translate for one direction
\* leaves the other direction's cache as it is, its lookup is a hit exactly
\* when its own direction's cache holds the key, and a hit returns that cache's
\* value: an entry of the other direction never makes a hit.
C17_DirectionsAreIndependent ==
    [][\A t \in Threads :
          TranslateStep(t) =>
              /\ \A d \in Directions \ {direction[t]} : CACHE'[d] = CACHE[d]
              /\ (pc[t] = "translate" /\ word[t].kind = "str") =>
                    /\ pc'[t] \in {"hit", "call"}
                    /\ pc'[t] = "hit" <=>
                          cache_key'[t] \in DOMAIN CACHE[direction[t]]
              /\ (pc[t] = "hit" /\ pc'[t] = "return") =>
                    result'[t] = Some(CACHE[direction[t]][cache_key[t]])]_vars

\* a translate that missed and calls the provider although the other
\* direction's cache holds its key
C17_Witness ==
    \E t \in Threads : \E d \in Directions :
        /\ pc[t] = "call"
        /\ d # direction[t]
        /\ cache_key[t] \in DOMAIN CACHE[d]
        /\ cache_key[t] \notin DOMAIN CACHE[direction[t]]

\* the texts thread t's request asks to translate, as the handler passes them
\* on: the word of a single-word request, the string items of a batch request
RequestedTexts(t) ==
    IF IsSingle(t) THEN {word[t].val}
    ELSE IF IsBatch(t) /\ Get(req[t].words, JList(<<>>)).kind = "list"
    THEN {req[t].words.val[j].val : j \in {n \in 1..Len(req[t].words.val) :
                                             req[t].words.val[n].kind = "str"}}
    ELSE {}

\* C18: on a miss the provider is called with the original text, not the
\* lower-cased one, and with the codes the direction fixes: source en and
\* target lus for English-to-Mizo, source lus and target en for
\* Mizo-to-English.
C18_ProviderGetsOriginalTextAndCodes ==
    \A t \in Threads :
        /\ \A x \in sent[t] :
              /\ x[1] \in RequestedTexts(t)
              /\ direction[t] = "en-to-mizo" => (x[2] = "en" /\ x[3] = "lus")
              /\ direction[t] = "mizo-to-en" => (x[2] = "lus" /\ x[3] = "en")
              /\ direction[t] \in Directions
        /\ pc[t] = "store" => \E x \in sent[t] : x[1] = word[t].val
        /\ reqCalls[t] > 0 => sent[t] # {}

\* the provider has been called for "A" in the Mizo-to-English direction
C18_Witness ==
    \E t \in Threads :
        /\ pc[t] = "store"
        /\ word[t].val = <<"A">>
        /\ cache_key[t] = <<"a">>
        /\ sent[t] = {<< <<"A">>, "lus", "en" >>}

\* C19: no operation blocks indefinitely: every accepted request eventually
\* completes with a response.
C19_EveryRequestCompletes ==
    \A t \in Threads : (pc[t] = "handler") ~> (pc[t] = "done")

\* in this step thread t writes the value v under the key k of direction d's
\* cache, v being the non-empty text its own provider call returned, a call
\* made with direction d's codes for a text whose lower-cased form is k
WritesProvided(t, d, k, v) ==
    /\ Writes(t)
    /\ direction[t] = d
    /\ tcalls[t] = 1
    /\ ~failed[t]
    /\ result[t] = Some(v)
    /\ v # ""
    /\ word[t].val = k \/ DifferInCaseOnly(word[t].val, k)
    /\ \A j \in 1..Len(k) : k[j] \notin UpperCase
    /\ << word[t].val,
          IF d = "en-to-mizo" THEN "en" ELSE "lus",
          IF d = "en-to-mizo" THEN "lus" ELSE "en" >> \in sent[t]

\* C20: every entry of a cache holds a non-empty value that the provider
\* returned, in that cache's direction and with its codes, for a requested
\* text whose lower-cased form is the key: no value is empty, and an entry is
\* made or changed only by the write of such a value, never with a value of
\* the other direction or of a failed call.
C20_EntriesHoldProviderResults ==
    /\ [](\A d \in Directions : \A k \in DOMAIN CACHE[d] : CACHE[d][k] # "")
    /\ [][\A d \in Directions : \A k \in DOMAIN CACHE'[d] :
             (k \notin DOMAIN CACHE[d] \/ CACHE'[d][k] # CACHE[d][k]) =>
                 \E t \in Threads : WritesProvided(t, d, k, CACHE'[d][k])]_vars

\* both caches hold an entry for "a", with different values, the
\* Mizo-to-English one asked for as "A"
C20_Witness ==
    /\ <<"a">> \in DOMAIN CACHE["en-to-mizo"]
    /\ <<"a">> \in DOMAIN CACHE["mizo-to-en"]
    /\ CACHE["en-to-mizo"][<<"a">>] # CACHE["mizo-to-en"][<<"a">>]
    /\ \E t \in Threads : /\ pc[t] = "return"
                          /\ direction[t] = "mizo-to-en"
                          /\ word[t].val = <<"A">>
                          /\ tcalls[t] = 1

====
